---- MODULE Spec2Model ----
(***************************************************************************)
(* Alert store, provider chain and price-alert evaluator of the LINE stock *)
(* bot (src/app.py).  Prices are integers in thousandths of a currency     *)
(* unit (800.000 is 800000), times are minutes since Monday 00:00 local    *)
(* time, symbols are sequences of one-character strings.                  *)
(***************************************************************************)
EXTENDS Integers, Sequences, FiniteSets, TLC

(* ------------------------------ bounds -------------------------------- *)

\* largest value the id sequence of stock_tracking may reach (number of durable adds)
MaxId == 2
\* largest total number of entries in the in-memory fallback lists
MaxMem == 2
\* number of instants of Instants the clock may visit
MaxInstant == 3

(* ------------------------------ universe ------------------------------ *)

Users == {"U1", "U2"}

S2330 == <<"2", "3", "3", "0">>
AAPL == <<"A", "A", "P", "L">>
S9999 == <<"9", "9", "9", "9">>
Symbols == {S2330, AAPL}

\* strings a caller may hand to the lookup: 0050, a code with a letter in it,
\* a code followed by a newline, the empty string
S0050 == <<"0", "0", "5", "0">>
S23a0 == <<"2", "3", "a", "0">>
S2330LF == <<"2", "3", "3", "0", "\n">>
RawSymbols == {S2330, AAPL, S9999, S0050, S23a0, S2330LF, <<>>}

\* AAPL as a user may type it
aapl == <<"a", "a", "p", "l">>

\* str.upper()
upper(symbol) ==
    [i \in DOMAIN symbol |->
        IF symbol[i] = "a" THEN "A" ELSE IF symbol[i] = "p" THEN "P"
        ELSE IF symbol[i] = "l" THEN "L" ELSE symbol[i]]

\* the symbols the live feeds have a quote for; S9999 is a code no exchange lists
Listed == {S2330, AAPL, S0050}

\* '買進' and '賣出'
Buy == "buy"
Sell == "sell"

\* the third token of a tracking command, and what float() makes of it
PriceTokens == {"800", "abc"}
IsNumeric(tok) == tok \in {"800", "800.004", "1100"}
float(tok) ==
    IF tok = "800" THEN 800000 ELSE IF tok = "800.004" THEN 800004 ELSE 1100000

\* a value stored in a DECIMAL(10,2) column: rounded to two decimals
Decimal2(x) == ((x + 5) \div 10) * 10

\* the fourth token of a tracking command
ActionTokens == {Buy, Sell, "hold"}

\* prices a live feed may report
FeedPrices == {799990, 800000, 800010}

\* the None a lookup returns instead of a quote dict
None == [symbol |-> <<>>, price |-> 0, source |-> "None"]

(* ------------------------------- clock -------------------------------- *)

At(d, h, m) == d * 1440 + h * 60 + m

\* the instants the clock visits: Fri 09:00, Fri 09:05, Sat 10:00, then
\* Mon 09:00, Mon 13:35 and Mon 22:00 of the next week
Instants ==
    << At(4, 9, 0), At(4, 9, 5), At(5, 10, 0), At(7, 9, 0), At(7, 13, 35), At(7, 22, 0) >>

weekday(t) == (t \div 1440) % 7
time(t) == t % 1440

\* is_trading_hours without the weekday test
is_trading_hours_anyday(t) ==
    /\ time(t) >= At(0, 9, 0)
    /\ time(t) <= At(0, 13, 30)

\* price_check_scheduler's is_trading_hours
is_trading_hours(t) ==
    /\ weekday(t) < 5
    /\ time(t) >= At(0, 9, 0)
    /\ time(t) <= At(0, 13, 30)

(* --------------------------- provider chain --------------------------- *)

Digits == {"0", "1", "2", "3", "4", "5", "6", "7", "8", "9"}

\* re.match(r'^\d+$', symbol): one or more digits up to the end of the
\* string, or up to a newline that ends the string
IsDigits(symbol) ==
    LET n == Len(symbol)
        digits == IF n > 0 /\ symbol[n] = "\n" THEN SubSeq(symbol, 1, n - 1) ELSE symbol
    IN  Len(digits) > 0 /\ \A i \in 1..Len(digits) : digits[i] \in Digits

\* f"{symbol}.TW"
TW(symbol) == symbol \o <<".", "T", "W">>

\* a close the general-purpose feed reports as not-a-number
NaN == -1

\* what the general-purpose feed answers to the four strategies
\* (info snapshot, 1-day, 5-day, 2-day-interval history); 0 is "no price": an
\* empty answer, or an exception the attempt catches
YfResponses ==
    { <<0, 0, 0, 0>>, <<800000, 0, 0, 0>>, <<0, 799990, 0, 0>>, <<0, 0, 0, 800010>> }

\* what the official exchange feed answers: the status code and the 'data' rows
\* (the average prices of the days of the month, oldest first)
TwseResponses ==
    {[status_code |-> 200, data |-> <<p>>] : p \in FeedPrices}
        \cup {[status_code |-> 200, data |-> <<>>], [status_code |-> 500, data |-> <<>>]}

\* what the feeds answer during one lookup: the exchange feed, the general-purpose
\* feed asked by _get_twse_offline_data, the general-purpose feed asked afterwards
Feeds ==
    {[twse |-> t, yfOff |-> <<0, 0, 0, 0>>, yf |-> <<0, 0, 0, 0>>] : t \in TwseResponses}
        \cup {[twse |-> [status_code |-> 500, data |-> <<>>], yfOff |-> y, yf |-> y] :
                 y \in YfResponses}
        \cup {[twse |-> [status_code |-> 500, data |-> <<>>],
                yfOff |-> <<0, 0, 0, 0>>, yf |-> <<0, 0, 799990, 0>>]}

\* the answers possible for a symbol: the feeds have nothing on an unlisted one
FeedsFor(symbol) ==
    IF symbol \in Listed THEN Feeds
    ELSE {[twse |-> [status_code |-> 200, data |-> <<>>],
           yfOff |-> <<0, 0, 0, 0>>, yf |-> <<0, 0, 0, 0>>]}

\* further answers: the exchange feed reports the price 0, or the request to
\* it raises (status_code 0: network error, timeout, a payload that response.json()
\* or float() rejects); the general-purpose feed reports a not-a-number close
FaultyFeeds ==
    {[twse |-> t, yfOff |-> y, yf |-> y] :
        t \in {[status_code |-> 200, data |-> <<0>>], [status_code |-> 0, data |-> <<>>]},
        y \in {<<0, 0, 0, 0>>, <<800000, 0, 0, 0>>}}
        \cup {[twse |-> [status_code |-> 500, data |-> <<>>],
                yfOff |-> <<0, NaN, 0, 0>>, yf |-> <<0, NaN, 0, 0>>]}

\* the answers a lookup made by a user may meet
LookupFeedsFor(symbol) ==
    IF symbol \in Listed THEN Feeds \cup FaultyFeeds ELSE FeedsFor(symbol)

\* current_price and current_price > 0
Positive(current_price) == current_price # NaN /\ current_price > 0

\* not current_price or current_price <= 0 (false of a not-a-number)
Insufficient(current_price) == current_price # NaN /\ current_price <= 0

\* current_price after the strategies from the i-th on: a strategy runs only
\* while current_price is insufficient, and the first answer that is not
\* insufficient stays
RECURSIVE FirstPositive(_, _)
FirstPositive(yf, i) ==
    IF i > Len(yf) THEN 0
    ELSE IF ~ Insufficient(yf[i]) THEN yf[i]
    ELSE FirstPositive(yf, i + 1)

\* for attempt in range(3) around the first two strategies; the last two run once
Retries == <<3, 3, 1, 1>>

\* the requests one fetch sends to the general-purpose feed, in order, each
\* named by its strategy: a strategy runs if current_price is still
\* insufficient, and is repeated until it answers or its attempts are spent
RECURSIVE yf_attempts(_, _)
yf_attempts(yf, i) ==
    IF i > Len(yf) THEN << >>
    ELSE [n \in 1..(IF yf[i] # 0 /\ (i > 1 \/ Positive(yf[i])) THEN 1 ELSE Retries[i]) |-> i]
         \o IF Insufficient(yf[i]) THEN yf_attempts(yf, i + 1) ELSE << >>

_get_yfinance_stock_info(symbol, yf) ==
    LET current_price == FirstPositive(yf, 1)
    IN  IF Insufficient(current_price) THEN None
        ELSE [symbol |-> symbol, price |-> current_price, source |-> "yfinance"]

_get_twse_offline_data(symbol, yf) ==
    LET current_price == FirstPositive(yf, 1)
    IN  IF Positive(current_price)
        THEN [symbol |-> symbol, price |-> current_price, source |-> "smart_fallback"]
        ELSE None

\* what ticker.history(period="2d") answers: it raises, or it returns the
\* closes of up to three days, oldest first
Hist2Responses ==
    {[raised |-> TRUE, closes |-> << >>]}
        \cup {[raised |-> FALSE, closes |-> c] :
                 c \in {<< >>} \cup {<<p>> : p \in FeedPrices}
                        \cup {<<p, q>> : p \in FeedPrices, q \in FeedPrices}
                        \cup {<<799990, 800000, 800010>>}}

\* a quotient of floats, kept as the pair of its terms
Ratio(num, den) == [num |-> num, den |-> den]

\* a change computed whenever the history has a row
yf_change_anyrow(current_price, hist) ==
    IF ~ hist.raised /\ Len(hist.closes) >= 1
    THEN LET prev_price == hist.closes[Len(hist.closes)]
         IN  [change |-> current_price - prev_price,
              change_percent |-> Ratio((current_price - prev_price) * 100, prev_price)]
    ELSE [change |-> 0, change_percent |-> Ratio(0, 1)]

\* change and change_percent of a quote of the general-purpose feed: 0 and 0
\* unless the 2-day history has two rows, then from hist.iloc[-2]['Close']
yf_change(current_price, hist) ==
    IF ~ hist.raised /\ Len(hist.closes) >= 2
    THEN LET prev_price == hist.closes[Len(hist.closes) - 1]
             change == current_price - prev_price
         IN  [change |-> change, change_percent |-> Ratio(change * 100, prev_price)]
    ELSE [change |-> 0, change_percent |-> Ratio(0, 1)]

\* an exception on its way out of a function
Raised == [symbol |-> <<>>, price |-> 0, source |-> "raise"]

\* a gate that lets every request through
twse_open_always(t) == TRUE

\* the official feed is asked on a weekday from 09:00 to 13:30
twse_open(t) ==
    /\ ~ (weekday(t) >= 5)
    /\ ~ (time(t) < At(0, 9, 0) \/ time(t) > At(0, 13, 30))

\* the try block of _get_twse_stock_info
_get_twse_stock_info_try(symbol, t, twse, yfOff) ==
    IF ~ twse_open(t) THEN _get_twse_offline_data(symbol, yfOff)
    ELSE IF twse.status_code = 0 THEN Raised
    ELSE IF twse.status_code = 200 /\ Len(twse.data) > 0
    THEN [symbol |-> symbol, price |-> twse.data[Len(twse.data)], source |-> "twse"]
    ELSE _get_twse_offline_data(symbol, yfOff)

\* the try block without its except clause
_get_twse_stock_info_unguarded(symbol, t, twse, yfOff) ==
    _get_twse_stock_info_try(symbol, t, twse, yfOff)

_get_twse_stock_info(symbol, t, twse, yfOff) ==
    LET result == _get_twse_stock_info_try(symbol, t, twse, yfOff)
    IN  IF result = Raised THEN _get_twse_offline_data(symbol, yfOff) ELSE result

fallback_data ==
    [s \in {AAPL, S2330} |-> IF s = AAPL THEN 227710 ELSE 1225000]

_get_fallback_stock_info(symbol) ==
    IF symbol \in DOMAIN fallback_data
    THEN [symbol |-> symbol, price |-> fallback_data[symbol], source |-> "fallback_simulation"]
    ELSE [symbol |-> symbol, price |-> 100000, source |-> "fallback_generic"]

\* the try block of get_stock_info
get_stock_info_try(symbol, t, twse, yfOff, yf) ==
    IF IsDigits(symbol)
    THEN LET result == _get_twse_stock_info(symbol, t, twse, yfOff)
         IN  IF result = None THEN _get_yfinance_stock_info(TW(symbol), yf) ELSE result
    ELSE LET result == _get_yfinance_stock_info(symbol, yf)
         IN  IF result = None THEN _get_fallback_stock_info(symbol) ELSE result

\* a chain that goes from the official feed straight to the static table
get_stock_info_static(symbol, t, twse, yfOff, yf) ==
    IF IsDigits(symbol)
    THEN LET result == _get_twse_stock_info(symbol, t, twse, yfOff)
         IN  IF result.source = "twse" THEN result ELSE _get_fallback_stock_info(symbol)
    ELSE LET result == _get_yfinance_stock_info(symbol, yf)
         IN  IF result = None THEN _get_fallback_stock_info(symbol) ELSE result

get_stock_info(symbol, t, twse, yfOff, yf) ==
    LET result == get_stock_info_try(symbol, t, twse, yfOff, yf)
    IN  IF result = Raised THEN None ELSE result

\* the provider functions get_stock_info calls, in order, with their argument
get_stock_info_calls(symbol, t, twse, yfOff, yf) ==
    IF IsDigits(symbol)
    THEN << [fn |-> "_get_twse_stock_info", symbol |-> symbol] >>
         \o IF _get_twse_stock_info(symbol, t, twse, yfOff) = None
            THEN << [fn |-> "_get_yfinance_stock_info", symbol |-> TW(symbol)] >>
            ELSE << >>
    ELSE << [fn |-> "_get_yfinance_stock_info", symbol |-> symbol] >>
         \o IF _get_yfinance_stock_info(symbol, yf) = None
            THEN << [fn |-> "_get_fallback_stock_info", symbol |-> symbol] >>
            ELSE << >>

\* what each of these calls returned
get_stock_info_returns(symbol, t, twse, yfOff, yf) ==
    IF IsDigits(symbol)
    THEN << _get_twse_stock_info(symbol, t, twse, yfOff) >>
         \o IF _get_twse_stock_info(symbol, t, twse, yfOff) = None
            THEN << _get_yfinance_stock_info(TW(symbol), yf) >>
            ELSE << >>
    ELSE << _get_yfinance_stock_info(symbol, yf) >>
         \o IF _get_yfinance_stock_info(symbol, yf) = None
            THEN << _get_fallback_stock_info(symbol) >>
            ELSE << >>

\* the network requests of a lookup, in order: to the official feed
\* (strategy 0) and to the general-purpose feed (strategies 1 to 4)
Requests(host, strategies) ==
    [n \in DOMAIN strategies |-> [host |-> host, strategy |-> strategies[n]]]

get_stock_info_requests(symbol, t, twse, yfOff, yf) ==
    IF IsDigits(symbol)
    THEN (IF twse_open(t) THEN Requests("twse", <<0>>) ELSE << >>)
         \o (IF _get_twse_stock_info_try(symbol, t, twse, yfOff).source = "twse"
             THEN << >>
             ELSE Requests("yfinance", yf_attempts(yfOff, 1)))
         \o (IF _get_twse_stock_info(symbol, t, twse, yfOff) = None
             THEN Requests("yfinance", yf_attempts(yf, 1))
             ELSE << >>)
    ELSE Requests("yfinance", yf_attempts(yf, 1))

(* ------------------------------- state -------------------------------- *)

VARIABLES
    cache,            \* the module-level cache dict: symbol -> entry
    db_type,          \* 'postgresql' or 'sqlite', fixed by DATABASE_URL
    stock_tracking,   \* the stock_tracking table: a set of rows
    id_seq,           \* the last value drawn from stock_tracking's id sequence
    price_alerts,     \* the price_alerts (alert history) table, in insertion order
    stock_trackings,  \* the in-memory fallback: user -> list of tracking dicts
    clock,            \* index of the current instant in Instants
    ev,               \* the price_check_scheduler threads: evaluator -> its locals
    pushed,           \* the push messages handed to the LINE API by send_price_alert
    reply             \* the last reply handle_message produced

vars ==
    << cache, db_type, stock_tracking, id_seq, price_alerts, stock_trackings,
       clock, ev, pushed, reply >>

Now == Instants[clock]

\* seconds an entry of cache is meant to live
cache_timeout == 300

Key(r) == <<r.user_id, r.symbol, r.target_price, r.action>>

Store ==
    [ db_type |-> db_type, stock_tracking |-> stock_tracking,
      id_seq |-> id_seq, stock_trackings |-> stock_trackings ]

\* outcomes of opening a connection and running the statements on it:
\* "ok", "none" (get_db_connection returned (None, None)), "error" (a statement raised)
ConnOutcomes == {"ok", "none", "error"}

RECURSIVE MemTotal(_, _)
MemTotal(mem, us) ==
    IF us = {} THEN 0
    ELSE LET u == CHOOSE x \in us : TRUE
         IN  Len(mem[u]) + MemTotal(mem, us \ {u})

(* ----------------------------- alert store ---------------------------- *)

\* INSERT ... ON CONFLICT (user_id, symbol, target_price, action)
\*   DO UPDATE SET is_active = TRUE, created_at = CURRENT_TIMESTAMP
UpsertPostgresql(S, k, t) ==
    LET target_price == Decimal2(k[3])
        old == {r \in S.stock_tracking :
                  Key(r) = <<k[1], k[2], target_price, k[4]>>}
        row == [ id |-> S.id_seq + 1, user_id |-> k[1], symbol |-> k[2],
                 target_price |-> target_price, action |-> k[4],
                 created_at |-> t, is_active |-> TRUE ]
    IN  [ S EXCEPT
            !.id_seq = S.id_seq + 1,
            !.stock_tracking =
                IF old = {} THEN S.stock_tracking \cup {row}
                ELSE (S.stock_tracking \ old) \cup
                     {[r EXCEPT !.is_active = TRUE, !.created_at = t] : r \in old} ]

\* INSERT OR REPLACE INTO stock_tracking (user_id, symbol, target_price, action)
UpsertSqlite(S, k, t) ==
    LET old == {r \in S.stock_tracking : Key(r) = k}
        row == [ id |-> S.id_seq + 1, user_id |-> k[1], symbol |-> k[2],
                 target_price |-> k[3], action |-> k[4],
                 created_at |-> t, is_active |-> TRUE ]
    IN  [ S EXCEPT
            !.id_seq = S.id_seq + 1,
            !.stock_tracking = (S.stock_tracking \ old) \cup {row} ]

\* the except branch of add_stock_tracking: stock_trackings[user_id].append(tracking_data)
MemoryFallback(S, user_id, symbol, target_price, action, t) ==
    LET tracking_data == [ symbol |-> symbol, target_price |-> target_price,
                           action |-> action, created_at |-> t ]
    IN  [ S EXCEPT !.stock_trackings[user_id] = Append(@, tracking_data) ]

\* each store operation yields the store after it and its return value
add_stock_tracking(S, user_id, symbol, target_price, action, t, c) ==
    IF c = "none"
    THEN [ S |-> S, ret |-> FALSE ]
    ELSE IF c = "ok"
    THEN [ S |-> IF S.db_type = "postgresql"
                 THEN UpsertPostgresql(S, <<user_id, symbol, target_price, action>>, t)
                 ELSE UpsertSqlite(S, <<user_id, symbol, target_price, action>>, t),
           ret |-> TRUE ]
    ELSE [ S |-> MemoryFallback(S, user_id, symbol, target_price, action, t),
           ret |-> TRUE ]

\* UPDATE stock_tracking SET is_active = FALSE WHERE <match>
Deactivate(S, matched) ==
    [ S EXCEPT !.stock_tracking =
        {IF r \in matched THEN [r EXCEPT !.is_active = FALSE] ELSE r : r \in S.stock_tracking} ]

StoreUpdate(S, matched, c) ==
    IF c = "none" THEN [ S |-> S, ret |-> FALSE ]
    ELSE IF c = "ok" THEN [ S |-> Deactivate(S, matched), ret |-> TRUE ]
    ELSE [ S |-> S, ret |-> FALSE ]

\* WHERE user_id = ? AND symbol = ? (the match that forgets price and action)
remove_stock_tracking_anyprice(S, user_id, symbol, target_price, action, c) ==
    StoreUpdate(S, {r \in S.stock_tracking :
                       r.user_id = user_id /\ r.symbol = symbol}, c)

remove_stock_tracking(S, user_id, symbol, target_price, action, c) ==
    StoreUpdate(S, {r \in S.stock_tracking :
                       Key(r) = <<user_id, symbol, target_price, action>>}, c)

remove_stock_tracking_by_symbol(S, user_id, symbol, c) ==
    StoreUpdate(S, {r \in S.stock_tracking :
                       r.user_id = user_id /\ r.symbol = symbol}, c)

\* UPDATE stock_tracking SET is_active = FALSE (the statement without its WHERE)
remove_all_trackings_everyone(S, user_id, c) ==
    StoreUpdate(S, S.stock_tracking, c)

remove_all_trackings(S, user_id, c) ==
    StoreUpdate(S, {r \in S.stock_tracking : r.user_id = user_id}, c)

\* the columns get_user_trackings selects
ListRow(r) ==
    [ symbol |-> r.symbol, target_price |-> r.target_price,
      action |-> r.action, created_at |-> r.created_at ]

\* every sequence that lists each element of rows once
RECURSIVE Orderings(_)
Orderings(rows) ==
    IF rows = {} THEN { <<>> }
    ELSE UNION { { <<r>> \o s : s \in Orderings(rows \ {r}) } : r \in rows }

\* ORDER BY created_at DESC: rows of equal created_at come in any order
OrderByCreatedAtDesc(rows) ==
    { s \in Orderings(rows) :
        \A i, j \in DOMAIN s : i < j => s[i].created_at >= s[j].created_at }

\* WHERE user_id = ? (the filter that forgets is_active)
SelectUserActive_any(S, user_id) ==
    { r \in S.stock_tracking : r.user_id = user_id }

\* WHERE user_id = ? AND is_active
SelectUserActive(S, user_id) ==
    { r \in S.stock_tracking : r.user_id = user_id /\ r.is_active }

\* the lists get_user_trackings can return
get_user_trackings(S, user_id, c) ==
    IF c # "ok" THEN { <<>> }
    ELSE { [i \in DOMAIN s |-> ListRow(s[i])] :
             s \in OrderByCreatedAtDesc(SelectUserActive(S, user_id)) }

(* ------------------------------ evaluator ----------------------------- *)

Evaluators == DOMAIN ev

\* the locals of a price_check_scheduler thread between two cycles
EvIdle ==
    [ pc |-> "sleep", now |-> 0, wake |-> 0, is_trading_hours |-> FALSE,
      trackings |-> {}, alerts |-> <<>>, staged |-> <<>>, sent |-> 0,
      cur |-> <<>>, txn_at |-> 0, lost |-> 0 ]

\* the SELECT without its WHERE is_active
SelectActive_all(st) == {Key(r) : r \in st}

\* SELECT user_id, symbol, target_price, action FROM stock_tracking WHERE is_active
SelectActive(st) == {Key(r) : r \in {x \in st : x.is_active}}

\* the trigger test with strict comparisons
Triggered_strict(action, current_price, target_price) ==
    \/ action = Buy /\ current_price < target_price
    \/ action = Sell /\ current_price > target_price

\* the trigger test of check_price_alerts
Triggered(action, current_price, target_price) ==
    \/ action = Buy /\ current_price <= target_price
    \/ action = Sell /\ current_price >= target_price

\* the alert dict appended to alerts
AlertOf(k, current_price) ==
    [ user_id |-> k[1], symbol |-> k[2], target_price |-> k[3],
      current_price |-> current_price, action |-> k[4] ]

\* the price_alerts row of an alert; CURRENT_TIMESTAMP is the transaction's
\* start in PostgreSQL and the statement's time in SQLite
HistoryOf(a, txn_at, t) ==
    [ user_id |-> a.user_id, symbol |-> a.symbol, target_price |-> a.target_price,
      current_price |-> IF db_type = "postgresql" THEN Decimal2(a.current_price)
                        ELSE a.current_price,
      action |-> a.action,
      triggered_at |-> IF db_type = "postgresql" THEN txn_at ELSE t ]

\* UPDATE statements that name the row by user_id and symbol only
DeactivateFired_symbol(st, alerts) ==
    LET fired == {<<alerts[i].user_id, alerts[i].symbol>> : i \in 1..Len(alerts)}
    IN  {IF <<r.user_id, r.symbol>> \in fired THEN [r EXCEPT !.is_active = FALSE] ELSE r :
            r \in st}

\* a cycle whose UPDATE statements are left out
DeactivateFired_none(st, alerts) == st

\* the UPDATE ... SET is_active = FALSE statements of a cycle, made durable by commit
DeactivateFired(st, alerts) ==
    LET fired == {<<alerts[i].user_id, alerts[i].symbol, alerts[i].target_price,
                    alerts[i].action>> : i \in 1..Len(alerts)}
    IN  {IF Key(r) \in fired THEN [r EXCEPT !.is_active = FALSE] ELSE r : r \in st}

\* a failed cycle whose alerts are handed to the scheduler all the same
Aborted_notify(e) ==
    /\ ev' = [ev EXCEPT ![e] = [@ EXCEPT !.pc = "send", !.trackings = {},
                                          !.staged = <<>>, !.cur = <<>>]]

\* check_price_alerts returns [] from its except branch, or for want of a connection;
\* the scheduler then sleeps 300 s. The connection is dropped without a commit, so
\* the statements of the cycle are rolled back; lost counts the alerts of the
\* discarded list
Aborted(e) ==
    /\ ev' = [ev EXCEPT ![e] = [@ EXCEPT !.pc = "sleep", !.wake = Now + 5,
                                          !.trackings = {}, !.alerts = <<>>,
                                          !.staged = <<>>, !.sent = 0, !.cur = <<>>,
                                          !.lost = Len(ev[e].alerts)]]

\* top of the scheduler loop: the trading-hours gate, then check_price_alerts
\* up to its SELECT
CycleStart(e) ==
    /\ ev[e].pc \in {"sleep", "backoff"}
    /\ Now >= ev[e].wake
    /\ IF ~ is_trading_hours(Now)
       THEN ev' = [ev EXCEPT ![e] = [EvIdle EXCEPT !.now = Now, !.wake = Now + 5]]
       ELSE \E c \in ConnOutcomes :
              IF c = "ok"
              THEN ev' = [ev EXCEPT ![e] =
                               [EvIdle EXCEPT !.pc = "check", !.now = Now,
                                              !.is_trading_hours = TRUE,
                                              !.trackings = SelectActive(stock_tracking),
                                              !.txn_at = Now]]
              ELSE ev' = [ev EXCEPT ![e] =
                               [EvIdle EXCEPT !.now = Now, !.is_trading_hours = TRUE,
                                              !.wake = Now + 5]]
    /\ UNCHANGED << cache, db_type, stock_tracking, id_seq, price_alerts, stock_trackings,
                    clock, pushed, reply >>

\* a quote taken from the last answer given to a user who asked for the symbol
check_price_alerts_cached(symbol, t, f) ==
    IF reply.kind = "stock" /\ reply.symbol = symbol THEN reply.data
    ELSE get_stock_info(symbol, t, f.twse, f.yfOff, f.yf)

\* stock_data = StockService.get_stock_info(symbol) in check_price_alerts
check_price_alerts_quote(symbol, t, f) ==
    get_stock_info(symbol, t, f.twse, f.yfOff, f.yf)

\* one iteration of "for tracking in trackings"
EvalStep(e) ==
    /\ ev[e].pc = "check"
    /\ ev[e].trackings # {}
    /\ \E k \in ev[e].trackings : \E f \in FeedsFor(k[2]), c \in {"ok", "error"} :
         LET stock_data == check_price_alerts_quote(k[2], Now, f)
             current_price == stock_data.price
             triggered == stock_data # None /\ Triggered(k[4], current_price, k[3])
             cur == [ key |-> k, stock_data |-> stock_data, triggered |-> triggered,
                      at |-> Now, feed |-> f ]
             alert == AlertOf(k, current_price)
         IN  IF triggered /\ c = "error"
             THEN Aborted(e)
             ELSE ev' = [ev EXCEPT ![e] =
                              [@ EXCEPT !.trackings = @ \ {k},
                                        !.cur = <<cur>>,
                                        !.alerts = IF triggered THEN Append(@, alert) ELSE @,
                                        !.staged = IF triggered
                                                   THEN Append(@, HistoryOf(alert, ev[e].txn_at, Now))
                                                   ELSE @]]
    /\ UNCHANGED << cache, db_type, stock_tracking, id_seq, price_alerts, stock_trackings,
                    clock, pushed, reply >>

\* conn.commit(); conn.close(); return alerts
Commit(e) ==
    /\ ev[e].pc = "check"
    /\ ev[e].trackings = {}
    /\ \E c \in {"ok", "error"} :
         IF c = "ok"
         THEN /\ price_alerts' = price_alerts \o ev[e].staged
              /\ stock_tracking' = DeactivateFired(stock_tracking, ev[e].alerts)
              /\ ev' = [ev EXCEPT ![e] = [@ EXCEPT !.pc = "send", !.staged = <<>>,
                                                    !.cur = <<>>]]
         ELSE /\ Aborted(e)
              /\ UNCHANGED << price_alerts, stock_tracking >>
    /\ UNCHANGED << cache, db_type, id_seq, stock_trackings, clock, pushed, reply >>

\* send_price_alert(alert['user_id'], alert): the PushMessageRequest handed to the LINE API
PushOf(a) ==
    [ to |-> a.user_id, symbol |-> a.symbol, target_price |-> a.target_price,
      current_price |-> a.current_price, action |-> a.action ]

\* one iteration of "for alert in alerts"
Send(e) ==
    /\ ev[e].pc = "send"
    /\ ev[e].sent < Len(ev[e].alerts)
    /\ pushed' = Append(pushed, PushOf(ev[e].alerts[ev[e].sent + 1]))
    /\ ev' = [ev EXCEPT ![e].sent = @ + 1]
    /\ UNCHANGED << cache, db_type, stock_tracking, id_seq, price_alerts, stock_trackings,
                    clock, reply >>

\* the end of a cycle: time.sleep(300)
FinishCycle(e) ==
    /\ ev[e].pc = "send"
    /\ ev[e].sent = Len(ev[e].alerts)
    /\ ev' = [ev EXCEPT ![e] = [@ EXCEPT !.pc = "sleep", !.wake = Now + 5]]
    /\ UNCHANGED << cache, db_type, stock_tracking, id_seq, price_alerts, stock_trackings,
                    clock, pushed, reply >>

\* an exception that ends the thread: the loop body without its try
price_check_scheduler_fatal(e) ==
    /\ ev[e].pc \in {"check", "send"} \/ Now >= ev[e].wake
    /\ ev' = [ev EXCEPT ![e] =
                     [EvIdle EXCEPT !.pc = "dead",
                                    !.now = IF ev[e].pc \in {"check", "send"}
                                            THEN ev[e].now ELSE Now]]
    /\ UNCHANGED << cache, db_type, stock_tracking, id_seq, price_alerts, stock_trackings,
                    clock, pushed, reply >>

\* except Exception in price_check_scheduler: an exception raised anywhere in
\* the loop body (the time computation at its top, check_price_alerts, the
\* for loop over alerts) is logged, the cycle's locals and its open
\* transaction are dropped, and the thread sleeps 60 s; now keeps the instant
\* the failed iteration began at
price_check_scheduler_except(e) ==
    /\ ev[e].pc \in {"check", "send"} \/ Now >= ev[e].wake
    /\ ev' = [ev EXCEPT ![e] =
                     [EvIdle EXCEPT !.pc = "backoff",
                                    !.now = IF ev[e].pc \in {"check", "send"}
                                            THEN ev[e].now ELSE Now,
                                    !.wake = Now + 1]]
    /\ UNCHANGED << cache, db_type, stock_tracking, id_seq, price_alerts, stock_trackings,
                    clock, pushed, reply >>

(* ------------------------------ handlers ------------------------------ *)

NoReply == [to |-> "-", kind |-> "none"]

ReplyTo(user_id, kind) == [to |-> user_id, kind |-> kind]

\* the state a store operation leaves, within the bounds of the model
StoreBecomes(S) ==
    /\ S.id_seq <= MaxId
    /\ MemTotal(S.stock_trackings, Users) <= MaxMem
    /\ stock_tracking' = S.stock_tracking
    /\ id_seq' = S.id_seq
    /\ stock_trackings' = S.stock_trackings

\* handle_message, branch '追蹤 <symbol> <price> <action>'
HandleTrack(user_id, symbol, ptok, atok, c) ==
    /\ IF ~ IsNumeric(ptok)
       THEN /\ reply' = ReplyTo(user_id, "price_format_error")
            /\ UNCHANGED << stock_tracking, id_seq, stock_trackings >>
       ELSE IF atok \notin {Buy, Sell}
       THEN /\ reply' = ReplyTo(user_id, "action_error")
            /\ UNCHANGED << stock_tracking, id_seq, stock_trackings >>
       ELSE LET r == add_stock_tracking(Store, user_id, symbol, float(ptok), atok, Now, c)
            IN  /\ StoreBecomes(r.S)
                /\ reply' = ReplyTo(user_id, IF r.ret THEN "track_ok" ELSE "track_failed")
    /\ UNCHANGED << cache, db_type, price_alerts, clock, ev, pushed >>

\* handle_message, branch '取消追蹤 <symbol> <price> <action>'
HandleCancel(user_id, symbol, ptok, atok, c) ==
    /\ IF ~ IsNumeric(ptok)
       THEN /\ reply' = ReplyTo(user_id, "price_format_error")
            /\ UNCHANGED << stock_tracking, id_seq, stock_trackings >>
       ELSE LET r == remove_stock_tracking(Store, user_id, symbol, float(ptok), atok, c)
            IN  /\ StoreBecomes(r.S)
                /\ reply' = ReplyTo(user_id, IF r.ret THEN "cancel_ok" ELSE "cancel_failed")
    /\ UNCHANGED << cache, db_type, price_alerts, clock, ev, pushed >>

\* handle_message, branch '修改追蹤 <symbol> <old> <new> <action>': the old
\* alert is removed on one connection (outcome c1) and, if that returned
\* True, the new one is added on another (outcome c2); the action token is
\* not validated here
HandleModify(user_id, symbol, otok, ntok, atok, c1, c2) ==
    /\ IF ~ IsNumeric(otok) \/ ~ IsNumeric(ntok)
       THEN /\ reply' = ReplyTo(user_id, "price_format_error")
            /\ UNCHANGED << stock_tracking, id_seq, stock_trackings >>
       ELSE LET removed == remove_stock_tracking(Store, user_id, symbol, float(otok), atok, c1)
                added == add_stock_tracking(removed.S, user_id, symbol, float(ntok), atok,
                                            Now, c2)
            IN  IF ~ removed.ret
                THEN /\ StoreBecomes(removed.S)
                     /\ reply' = ReplyTo(user_id, "modify_not_found")
                ELSE /\ StoreBecomes(added.S)
                     /\ reply' = ReplyTo(user_id, IF added.ret THEN "modify_ok"
                                                  ELSE "modify_failed")
    /\ UNCHANGED << cache, db_type, price_alerts, clock, ev, pushed >>

\* handle_message, branch '取消追蹤 <symbol>'
HandleCancelSymbol(user_id, symbol, c) ==
    /\ LET r == remove_stock_tracking_by_symbol(Store, user_id, symbol, c)
       IN  /\ StoreBecomes(r.S)
           /\ reply' = ReplyTo(user_id, IF r.ret THEN "cancel_symbol_ok"
                                        ELSE "cancel_symbol_failed")
    /\ UNCHANGED << cache, db_type, price_alerts, clock, ev, pushed >>

\* handle_message, branch '取消全部'
HandleCancelAll(user_id, c) ==
    /\ LET r == remove_all_trackings(Store, user_id, c)
       IN  /\ StoreBecomes(r.S)
           /\ reply' = ReplyTo(user_id, IF r.ret THEN "cancel_all_ok" ELSE "cancel_all_failed")
    /\ UNCHANGED << cache, db_type, price_alerts, clock, ev, pushed >>

\* handle_message, branch '我的追蹤'
HandleList(user_id, c) ==
    /\ \E trackings \in get_user_trackings(Store, user_id, c) :
         reply' = [ to |-> user_id,
                    kind |-> IF trackings # <<>> THEN "list" ELSE "list_empty",
                    rows |-> trackings ]
    /\ UNCHANGED << cache, db_type, stock_tracking, id_seq, price_alerts, stock_trackings,
                    clock, ev, pushed >>

\* a lookup made outside the evaluator (test_stock, the quote commands): the
\* quote get_stock_info returns at this instant on these answers of the feeds,
\* and the providers it called on the way
LookupOn(symbol, feeds) ==
    /\ \E f \in feeds :
         LET stock_data == get_stock_info(symbol, Now, f.twse, f.yfOff, f.yf)
         IN  reply' = [ to |-> "http",
                        kind |-> IF stock_data = None THEN "stock_failed" ELSE "stock",
                        symbol |-> symbol, at |-> Now, feed |-> f,
                        data |-> stock_data,
                        calls |-> get_stock_info_calls(symbol, Now, f.twse, f.yfOff, f.yf),
                        returns |-> get_stock_info_returns(symbol, Now, f.twse, f.yfOff, f.yf),
                        requests |-> get_stock_info_requests(symbol, Now, f.twse, f.yfOff, f.yf) ]
    /\ UNCHANGED << cache, db_type, stock_tracking, id_seq, price_alerts, stock_trackings,
                    clock, ev, pushed >>

Lookup(symbol) == LookupOn(symbol, LookupFeedsFor(symbol))

\* handle_message, branch '美股 <symbol>': symbol = parts[1].upper()
HandleUSStock(symbol) == Lookup(upper(symbol))

\* handle_message, branch '台股 <symbol>': symbol = parts[1]
HandleTWStock(symbol) == Lookup(symbol)

\* a quote of the general-purpose feed with its 'change' and 'change_percent',
\* as _get_yfinance_stock_info builds it once it has a price
QuoteChange(symbol) ==
    /\ \E yf \in YfResponses, hist \in Hist2Responses :
         LET q == _get_yfinance_stock_info(symbol, yf)
             ch == yf_change(q.price, hist)
         IN  /\ q # None
             /\ reply' = [ to |-> "http", kind |-> "change", data |-> q, hist |-> hist,
                           change |-> ch.change, change_percent |-> ch.change_percent ]
    /\ UNCHANGED << cache, db_type, stock_tracking, id_seq, price_alerts, stock_trackings,
                    clock, ev, pushed >>

\* first words of texts: '追蹤', '取消追蹤', '我的追蹤', '取消全部' (the commands of
\* handle_message), then '我的提醒', '提醒清單', '取消所有提醒' and '早安'
Track == "track"
CancelTrack == "cancel_track"
MyTrackings == "my_trackings"
CancelAll == "cancel_all"
MyAlerts == "my_alerts"
AlertList == "alert_list"
CancelAllAlerts == "cancel_all_alerts"
GoodMorning == "good_morning"

\* texts a user may send, after strip() and split(): the first word and the rest
Messages ==
    {[head |-> h, args |-> << >>] :
        h \in {MyTrackings, MyAlerts, AlertList, CancelAll, CancelAllAlerts, GoodMorning}}
        \cup {[head |-> Track, args |-> a] :
                 a \in {<<S2330>>, <<S2330, "800">>, <<S2330, "800", Buy>>,
                        <<S2330, "800", Sell>>, <<S2330, "800.004", Buy>>,
                        <<S2330, "abc", Buy>>, <<S2330, "800", "hold">>,
                        <<S2330, "800", Buy, "now">>}}
        \cup {[head |-> CancelTrack, args |-> a] :
                 a \in {<<S2330>>, <<S2330, "800">>, <<S2330, "800", Buy>>}}
        \cup {[head |-> CancelAll, args |-> <<S2330>>]}

\* a branch of handle_message that only sets reply_text
Say(user_id, kind) ==
    /\ reply' = ReplyTo(user_id, kind)
    /\ UNCHANGED << cache, db_type, stock_tracking, id_seq, price_alerts, stock_trackings,
                    clock, ev, pushed >>

\* handle_message: the if/elif chain over user_message, for the texts above
handle_message(user_id, m, c) ==
    LET parts == <<m.head>> \o m.args
    IN  IF m.head = Track /\ Len(parts) >= 2
        THEN IF Len(parts) >= 4 THEN HandleTrack(user_id, parts[2], parts[3], parts[4], c)
             ELSE IF Len(parts) = 2 THEN Say(user_id, "track_company")
             ELSE Say(user_id, "track_format_error")
        ELSE IF m.head = MyTrackings /\ Len(parts) = 1 THEN HandleList(user_id, c)
        ELSE IF m.head = CancelTrack /\ Len(parts) >= 2
        THEN IF Len(parts) = 2 THEN HandleCancelSymbol(user_id, parts[2], c)
             ELSE IF Len(parts) >= 4
             THEN HandleCancel(user_id, parts[2], parts[3], parts[4], c)
             ELSE Say(user_id, "cancel_format_error")
        ELSE IF m.head = CancelAll /\ Len(parts) = 1 THEN HandleCancelAll(user_id, c)
        ELSE Say(user_id, "unknown")

\* time passes
Advance ==
    /\ clock < MaxInstant
    /\ clock' = clock + 1
    /\ UNCHANGED << cache, db_type, stock_tracking, id_seq, price_alerts, stock_trackings,
                    ev, pushed, reply >>

(* --------------------------- specifications --------------------------- *)

InitStore ==
    /\ cache = << >>
    /\ db_type \in {"postgresql", "sqlite"}
    /\ stock_tracking = {}
    /\ id_seq = 0
    /\ price_alerts = <<>>
    /\ stock_trackings = [u \in Users |-> <<>>]
    /\ clock = 1
    /\ pushed = <<>>
    /\ reply = NoReply

\* one process: initialize_app starts a single price_check_scheduler thread
Init ==
    /\ InitStore
    /\ ev = [e \in {1} |-> EvIdle]

\* several worker processes import the module: each runs initialize_app and
\* starts a price_check_scheduler thread of its own over the same database
InitOverlap ==
    /\ InitStore
    /\ ev = [e \in {1, 2} |-> EvIdle]

Evaluator ==
    \/ \E e \in Evaluators : CycleStart(e)
    \/ \E e \in Evaluators : EvalStep(e)
    \/ \E e \in Evaluators : Commit(e)
    \/ \E e \in Evaluators : Send(e)
    \/ \E e \in Evaluators : FinishCycle(e)

\* the evaluator beside one user's buy alerts on a domestic and a foreign symbol
Next ==
    \/ Evaluator
    \/ \E s \in Symbols : HandleTrack("U1", s, "800", Buy, "ok")
    \/ \E s \in Symbols : HandleCancel("U1", s, "800", Buy, "ok")
    \/ Advance

Spec == Init /\ [][Next]_vars

\* the evaluator beside one user's buy and sell alerts on the domestic symbol
NextTrigger ==
    \/ Evaluator
    \/ \E a \in {Buy, Sell} : HandleTrack("U1", S2330, "800", a, "ok")
    \/ Advance

SpecTrigger == Init /\ [][NextTrigger]_vars

\* the evaluator beside one user's buy alert on the domestic symbol and the
\* quotes users ask for
NextFresh ==
    \/ Evaluator
    \/ HandleTrack("U1", S2330, "800", Buy, "ok")
    \/ LookupOn(S2330, {f \in Feeds : f.twse.data \in {<<799990>>, <<800010>>}})
    \/ Advance

SpecFresh == Init /\ [][NextFresh]_vars

\* the texts users send
NextDispatch ==
    \/ \E user_id \in Users, m \in Messages : handle_message(user_id, m, "ok")
    \/ Advance

SpecDispatch == Init /\ [][NextDispatch]_vars

\* quotes of the general-purpose feed
NextChange ==
    \/ \E symbol \in {AAPL, TW(S2330)} : QuoteChange(symbol)
    \/ Advance

SpecChange == Init /\ [][NextChange]_vars

\* one user's buy alerts on AAPL typed in either case, and the quote commands
NextCase ==
    \/ \E symbol \in {AAPL, aapl} : HandleTrack("U1", symbol, "800", Buy, "ok")
    \/ \E symbol \in {AAPL, aapl} : HandleCancel("U1", symbol, "800", Buy, "ok")
    \/ \E symbol \in {AAPL, aapl} : HandleUSStock(symbol)
    \/ \E symbol \in {S2330, aapl} : HandleTWStock(symbol)
    \/ HandleList("U1", "ok")
    \/ Advance

SpecCase == Init /\ [][NextCase]_vars

\* the evaluator, cycles of which may fail, beside one user's buy alert on the
\* domestic symbol
NextLive ==
    \/ Evaluator
    \/ \E e \in Evaluators : price_check_scheduler_except(e)
    \/ HandleTrack("U1", S2330, "800", Buy, "ok")
    \/ Advance

\* the scheduler thread keeps running (each of its steps is taken once it can
\* be) and time passes
SpecLive ==
    /\ Init
    /\ [][NextLive]_vars
    /\ WF_vars(Advance)
    /\ \A e \in {1} :
          /\ WF_vars(CycleStart(e))
          /\ WF_vars(EvalStep(e))
          /\ WF_vars(Commit(e))
          /\ WF_vars(Send(e))
          /\ WF_vars(FinishCycle(e))

\* two evaluators beside one user's buy alert on the domestic symbol
NextOverlap ==
    \/ Evaluator
    \/ HandleTrack("U1", S2330, "800", Buy, "ok")
    \/ Advance

SpecOverlap == InitOverlap /\ [][NextOverlap]_vars

\* the evaluator beside one user's buy alerts on a listed and an unlisted symbol
NextValidate ==
    \/ Evaluator
    \/ \E s \in {S2330, S9999} : HandleTrack("U1", s, "800", Buy, "ok")
    \/ Advance

SpecValidate == Init /\ [][NextValidate]_vars

\* the handlers of two users on the domestic symbol under every connection
\* outcome, at one instant and with no evaluator running
NextStore ==
    \/ \E u \in Users, p \in PriceTokens, a \in ActionTokens, c \in ConnOutcomes :
         HandleTrack(u, S2330, p, a, c)
    \/ \E u \in Users, p \in PriceTokens, a \in ActionTokens, c \in ConnOutcomes :
         HandleCancel(u, S2330, p, a, c)
    \/ \E u \in Users, c \in ConnOutcomes : HandleCancelSymbol(u, S2330, c)
    \/ \E u \in Users, c \in ConnOutcomes : HandleCancelAll(u, c)

SpecStore == Init /\ [][NextStore]_vars

\* the tokens of the two prices of a modify command
ModifyTokens == {"800", "1100", "abc"}

\* one user adding buy and sell alerts on the domestic symbol at two targets
\* and modifying them under every connection outcome of the two store calls
NextModify ==
    \/ \E p \in {"800", "1100"}, a \in {Buy, Sell} : HandleTrack("U1", S2330, p, a, "ok")
    \/ \E o \in ModifyTokens, n \in ModifyTokens, a \in {Buy, Sell},
          c1 \in ConnOutcomes, c2 \in ConnOutcomes :
         HandleModify("U1", S2330, o, n, a, c1, c2)

SpecModify == Init /\ [][NextModify]_vars

\* two users adding and cancelling alerts on one symbol and listing them,
\* while time passes
NextList ==
    \/ \E k \in {<<"U1", Buy>>, <<"U1", Sell>>, <<"U2", Buy>>} :
         HandleTrack(k[1], S2330, "800", k[2], "ok")
    \/ HandleCancel("U1", S2330, "800", Buy, "ok")
    \/ HandleCancelAll("U2", "ok")
    \/ \E u \in Users, c \in {"ok", "none"} : HandleList(u, c)
    \/ Advance

SpecList == Init /\ [][NextList]_vars

\* one user adding, cancelling and listing sell alerts whose target price has
\* up to three decimals, beside the evaluator
NextAdapter ==
    \/ Evaluator
    \/ \E p \in {"800", "800.004"} : HandleTrack("U1", S2330, p, Sell, "ok")
    \/ \E p \in {"800", "800.004"} : HandleCancel("U1", S2330, p, Sell, "ok")
    \/ HandleList("U1", "ok")
    \/ Advance

SpecAdapter == Init /\ [][NextAdapter]_vars

\* lookups of raw strings while time passes
NextLookup ==
    \/ \E s \in RawSymbols : Lookup(s)
    \/ Advance

SpecLookup == Init /\ [][NextLookup]_vars

(* ------------------------------- claims ------------------------------- *)

HistKey(h) == <<h.user_id, h.symbol, h.target_price, h.action>>

Active(st, k) == \E r \in st : Key(r) = k /\ r.is_active

KeysOf(seq) == {HistKey(seq[i]) : i \in 1..Len(seq)}

Count(seq, k) == Cardinality({i \in 1..Len(seq) : HistKey(seq[i]) = k})

PushKey(m) == <<m.to, m.symbol, m.target_price, m.action>>

PushedKeys == {PushKey(pushed[i]) : i \in 1..Len(pushed)}

PushCount(k) == Cardinality({i \in 1..Len(pushed) : PushKey(pushed[i]) = k})

\* the history rows of a list of alerts, without their timestamps
Untimed(seq) ==
    [ i \in 1..Len(seq) |->
        [ user_id |-> seq[i].user_id, symbol |-> seq[i].symbol,
          target_price |-> seq[i].target_price,
          current_price |-> seq[i].current_price, action |-> seq[i].action ] ]

\* C1: with one evaluator an alert fires once per add. A record that has fired is
\* active again only if it was re-added at or after the firing; a cycle evaluates
\* no record that fired before and was not re-added since; there are never more
\* firings than adds; and between cycles every firing has exactly one notification.
C1_SingleShot ==
    /\ \A i \in 1..Len(price_alerts) : \A r \in stock_tracking :
         Key(r) = HistKey(price_alerts[i]) /\ r.is_active
            => r.created_at >= price_alerts[i].triggered_at
    /\ \A e \in Evaluators : \A k \in ev[e].trackings :
         \A i \in 1..Len(price_alerts) : \A r \in stock_tracking :
            Key(r) = k /\ HistKey(price_alerts[i]) = k
               => r.created_at >= price_alerts[i].triggered_at
    /\ Len(price_alerts) <= id_seq
    /\ \A e \in Evaluators :
         ev[e].pc \in {"sleep", "check"} => Len(pushed) = Len(price_alerts)

\* a second cycle has run its check after the cycle in which an alert fired, the
\* record is still inactive and the alert was notified once
C1_Witness ==
    \E e \in Evaluators : \E i \in 1..Len(price_alerts) :
        /\ ev[e].pc = "send"
        /\ ev[e].alerts = <<>>
        /\ ev[e].now > price_alerts[i].triggered_at
        /\ \E r \in stock_tracking : Key(r) = HistKey(price_alerts[i]) /\ ~ r.is_active
        /\ Len(price_alerts) = 1
        /\ Len(pushed) = 1

\* C2: under two overlapping evaluator cycles an alert yields at most one history
\* record and at most one notification for each time it was added.
C2_NoDoubleFiring ==
    \A k \in KeysOf(price_alerts) :
        /\ Count(price_alerts, k) <= id_seq
        /\ PushCount(k) <= id_seq

\* C3: firing is one unit. The cycle that returns a list of alerts appends exactly
\* one history row per returned alert, with its user, symbol, target, price and
\* direction, and deactivates exactly the records of those alerts; a cycle that
\* fails returns no alert and writes nothing; history rows are written by nothing
\* else; every push is the next returned alert; and the cycle ends only when every
\* returned alert has been handed to send_price_alert.
C3_FiringUnit ==
    [][ /\ \A e \in Evaluators :
             LET a == ev[e].alerts
             IN  /\ (ev[e].pc = "check" /\ ev'[e].pc = "send") =>
                       /\ ev'[e].alerts = a
                       /\ Len(price_alerts') = Len(price_alerts) + Len(a)
                       /\ Untimed(SubSeq(price_alerts', Len(price_alerts) + 1,
                                         Len(price_alerts'))) = Untimed(a)
                       /\ Cardinality(KeysOf(a)) = Len(a)
                       /\ \A k \in KeysOf(a) : ~ Active(stock_tracking', k)
                       /\ \A r \in stock_tracking :
                            r.is_active /\ ~ Active(stock_tracking', Key(r))
                               => Key(r) \in KeysOf(a)
                 /\ (ev[e].pc = "check" /\ ev'[e].pc = "sleep") =>
                       /\ ev'[e].alerts = <<>>
                       /\ price_alerts' = price_alerts
                       /\ stock_tracking' = stock_tracking
                 /\ (ev[e].pc = "send" /\ ev'[e].pc = "sleep") =>
                       ev[e].sent = Len(a)
        /\ price_alerts' # price_alerts =>
             \E e \in Evaluators : ev[e].pc = "check" /\ ev'[e].pc = "send"
        /\ pushed' # pushed =>
             \E e \in Evaluators :
                /\ ev[e].pc = "send"
                /\ ev[e].sent < Len(ev[e].alerts)
                /\ ev'[e].sent = ev[e].sent + 1
                /\ pushed' = Append(pushed, PushOf(ev[e].alerts[ev[e].sent + 1]))
      ]_vars

\* a cycle has ended after firing an alert: its history row is written, its record
\* is inactive and it was handed to send_price_alert
C3_Witness ==
    \E e \in Evaluators :
        /\ ev[e].pc = "sleep"
        /\ Len(ev[e].alerts) >= 1
        /\ ev[e].sent = Len(ev[e].alerts)
        /\ KeysOf(ev[e].alerts) \subseteq KeysOf(price_alerts)
        /\ KeysOf(ev[e].alerts) \subseteq PushedKeys
        /\ \A k \in KeysOf(ev[e].alerts) : ~ Active(stock_tracking, k)

\* C4: an evaluated alert with target T and fetched price P is fired (appended to
\* the cycle's alerts) exactly when it is a buy alert and P <= T, or a sell alert
\* and P >= T.
C4_TriggerCondition ==
    \A e \in Evaluators :
        ev[e].cur # <<>> /\ ev[e].cur[1].stock_data # None =>
            LET k == ev[e].cur[1].key
                P == ev[e].cur[1].stock_data.price
                T == k[3]
            IN  (k \in KeysOf(ev[e].alerts)) <=>
                    \/ k[4] = Buy /\ (P < T \/ P = T)
                    \/ k[4] = Sell /\ (P > T \/ P = T)

\* in one cycle a buy alert fired at a price equal to its target and a sell alert
\* did not fire at a price below its target
C4_Witness ==
    \E e \in Evaluators :
        /\ ev[e].cur # <<>>
        /\ ev[e].cur[1].key[4] = Sell
        /\ ev[e].cur[1].stock_data.price = 799990
        /\ ev[e].cur[1].key \notin KeysOf(ev[e].alerts)
        /\ \E i \in 1..Len(ev[e].alerts) :
              /\ ev[e].alerts[i].action = Buy
              /\ ev[e].alerts[i].current_price = ev[e].alerts[i].target_price

\* the evening and early-morning hours of the foreign market, local time
InForeignWindow(t) == time(t) >= At(0, 21, 0) \/ time(t) <= At(0, 5, 0)

\* C5: an alert is evaluated only in a cycle whose time lies in the trading hours
\* of its own market: weekdays 09:00-13:30 for a domestic symbol, the foreign
\* evening and early-morning window for any other.
C5_PerMarketGating ==
    \A e \in Evaluators :
        ev[e].cur # <<>> =>
            IF IsDigits(ev[e].cur[1].key[2])
            THEN weekday(ev[e].now) < 5 /\ time(ev[e].now) >= 9 * 60
                    /\ time(ev[e].now) <= 13 * 60 + 30
            ELSE InForeignWindow(ev[e].now)

\* C6: a cycle that starts on a weekend, or on a weekday outside 09:00-13:30,
\* is skipped entirely: no alert is looked up, the alert store and the history
\* stay as they are and nothing is pushed.
C6_OutOfHoursSkip ==
    [][ \A e \in Evaluators :
          ( /\ ev[e].pc = "sleep"
            /\ ev'[e] # ev[e]
            /\ ~ ( /\ weekday(Now) < 5
                   /\ time(Now) >= 9 * 60
                   /\ time(Now) <= 13 * 60 + 30 ) )
          => /\ ev'[e].pc = "sleep"
             /\ ev'[e].trackings = {}
             /\ ev'[e].cur = <<>>
             /\ ev'[e].alerts = <<>>
             /\ stock_tracking' = stock_tracking
             /\ price_alerts' = price_alerts
             /\ stock_trackings' = stock_trackings
             /\ pushed' = pushed
      ]_vars

\* a cycle started on a Saturday while a domestic alert was active, and was skipped
C6_Witness ==
    \E e \in Evaluators :
        /\ ev[e].pc = "sleep"
        /\ ev[e].now > 0
        /\ weekday(ev[e].now) >= 5
        /\ \E r \in stock_tracking : r.is_active /\ IsDigits(r.symbol)

MemKey(user_id, d) == <<user_id, d.symbol, d.target_price, d.action>>

\* C7: the alert store never holds two active records of one (user, symbol,
\* target price, direction) tuple, neither in the stock_tracking table nor in
\* the in-memory list stock_trackings.
C7_Uniqueness ==
    /\ \A r1, r2 \in stock_tracking :
         Key(r1) = Key(r2) /\ r1.is_active /\ r2.is_active => r1 = r2
    /\ \A u \in Users : \A i, j \in 1..Len(stock_trackings[u]) :
         MemKey(u, stock_trackings[u][i]) = MemKey(u, stock_trackings[u][j]) => i = j

\* C8: no record is active that was added less than 60 minutes after an alert of
\* the same (user, symbol, target, direction) fired.
C8_Cooldown ==
    \A i \in 1..Len(price_alerts) : \A r \in stock_tracking :
        ( /\ Key(r) = HistKey(price_alerts[i])
          /\ r.is_active
          /\ r.created_at >= price_alerts[i].triggered_at )
        => r.created_at - price_alerts[i].triggered_at >= 60

\* the lookup of a symbol can return a quote
Resolves(symbol) ==
    \E f \in FeedsFor(symbol) :
        get_stock_info(symbol, Now, f.twse, f.yfOff, f.yf) # None

\* C9: the alert store holds records only of symbols that resolve to a quote.
C9_SymbolValidated ==
    \A r \in stock_tracking : Resolves(r.symbol)

\* C10: a tracking command handled while no database connection can be obtained
\* does not fail: it is answered as set and the alert is in stock_trackings.
C10_DegradedAdd ==
    [][ \A u \in Users, a \in {Buy, Sell} :
          HandleTrack(u, S2330, "800", a, "none")
          => /\ reply'.kind = "track_ok"
             /\ \E i \in 1..Len(stock_trackings'[u]) :
                   MemKey(u, stock_trackings'[u][i]) = <<u, S2330, 800000, a>>
      ]_vars

RowsOf(st, us) == { r \in st : r.user_id \in us }

\* C12: a remove-all that succeeds leaves no active row of that user and
\* changes no row of any other user: the user's list is then empty and every
\* other user's list is what it was
C12_RemoveAllFrame ==
    [][ \A u \in Users :
          HandleCancelAll(u, "ok") =>
            /\ \A r \in RowsOf(stock_tracking', {u}) : ~ r.is_active
            /\ { r.id : r \in stock_tracking' } = { r.id : r \in stock_tracking }
            /\ RowsOf(stock_tracking', Users \ {u}) = RowsOf(stock_tracking, Users \ {u})
            /\ get_user_trackings(Store', u, "ok") = { <<>> }
            /\ \A v \in Users \ {u} :
                 get_user_trackings(Store', v, "ok") = get_user_trackings(Store, v, "ok")
      ]_vars

C12_Witness ==
    /\ reply.kind = "cancel_all_ok"
    /\ \E r \in stock_tracking : r.user_id = reply.to /\ ~ r.is_active
    /\ \E r \in stock_tracking : r.user_id # reply.to /\ r.is_active

\* C13: a remove-all for a user without any active row yields a
\* nothing-to-remove result, distinct from the success result
C13_RemoveAllReportsCount ==
    [][ \A u \in Users :
          (HandleCancelAll(u, "ok") /\ SelectUserActive(Store, u) = {})
            => reply'.kind = "nothing_to_remove" ]_vars

\* C14: a remove of (user, symbol, target, direction) that succeeds turns
\* the active flag of the row with these four fields off and changes no
\* other row
C14_RemoveOneFrame ==
    [][ \A u \in Users, a \in {Buy, Sell} :
          HandleCancel(u, S2330, "800", a, "ok") =>
            LET k == <<u, S2330, float("800"), a>>
            IN  /\ \A r \in stock_tracking' : Key(r) = k => ~ r.is_active
                /\ { r \in stock_tracking' : Key(r) # k }
                     = { r \in stock_tracking : Key(r) # k }
                /\ { Key(r) : r \in stock_tracking' } = { Key(r) : r \in stock_tracking }
                /\ stock_trackings' = stock_trackings ]_vars

C14_Witness ==
    /\ reply.kind = "cancel_ok"
    /\ \E r, q \in stock_tracking :
         /\ r.user_id = reply.to /\ q.user_id = reply.to
         /\ r.symbol = q.symbol /\ r.target_price = q.target_price
         /\ ~ r.is_active /\ q.is_active

\* C15: no step deletes a row of stock_tracking: every row is still there
\* after the step, under the same id and for the same tuple
C15_NeverDeleted ==
    [][ \A r \in stock_tracking :
          \E q \in stock_tracking' : q.id = r.id /\ Key(q) = Key(r) ]_vars

\* the alert store without its timestamps and row ids
Flags(S) ==
    [ table |-> { <<Key(r), r.is_active>> : r \in S.stock_tracking },
      memory |-> [ u \in Users |->
                     [ i \in DOMAIN S.stock_trackings[u] |->
                         MemKey(u, S.stock_trackings[u][i]) ] ] ]

\* C16: an add, a remove or a remove-all made a second time with the same
\* arguments returns what the first call returned and leaves the store
\* (table and in-memory list, timestamps aside) as the first call left it
C16_Idempotent ==
    [][ \A u \in Users, c \in ConnOutcomes :
          /\ \A a \in {Buy, Sell} :
               HandleTrack(u, S2330, "800", a, c) =>
                 LET again == add_stock_tracking(Store', u, S2330, float("800"), a, Now, c)
                 IN  /\ Flags(again.S) = Flags(Store')
                     /\ again.ret = (reply'.kind = "track_ok")
          /\ \A a \in {Buy, Sell} :
               HandleCancel(u, S2330, "800", a, c) =>
                 LET again == remove_stock_tracking(Store', u, S2330, float("800"), a, c)
                 IN  /\ Flags(again.S) = Flags(Store')
                     /\ again.ret = (reply'.kind = "cancel_ok")
          /\ HandleCancelAll(u, c) =>
               LET again == remove_all_trackings(Store', u, c)
               IN  /\ Flags(again.S) = Flags(Store')
                   /\ again.ret = (reply'.kind = "cancel_all_ok") ]_vars

\* the store as the other adapter would hold it
OtherAdapter(S) ==
    [ S EXCEPT !.db_type = IF @ = "postgresql" THEN "sqlite" ELSE "postgresql" ]

\* C17: an add made on the same store with the same arguments gives the same
\* result and the same list under the SQLite and the PostgreSQL adapter
C17_AdapterEquivalence ==
    [][ \A p \in {"800", "800.004"} :
          HandleTrack("U1", S2330, p, Sell, "ok") =>
            LET other == add_stock_tracking(OtherAdapter(Store), "U1", S2330,
                                            float(p), Sell, Now, "ok")
            IN  /\ other.ret = (reply'.kind = "track_ok")
                /\ get_user_trackings(other.S, "U1", "ok")
                     = get_user_trackings(Store', "U1", "ok") ]_vars

\* the string is not empty and each of its characters is a digit
DigitsOnly(raw) == Len(raw) > 0 /\ \A i \in 1..Len(raw) : raw[i] \in Digits

\* C18: a lookup goes through the domestic chain (its first call is the
\* official exchange provider) if and only if the string holds digits only;
\* any other string goes through the foreign chain (its first call is the
\* general-purpose provider on the string itself)
C18_Classification ==
    reply.kind \in {"stock", "stock_failed"} =>
        /\ DigitsOnly(reply.symbol) <=> reply.calls[1].fn = "_get_twse_stock_info"
        /\ ~ DigitsOnly(reply.symbol) <=>
             reply.calls[1] = [fn |-> "_get_yfinance_stock_info", symbol |-> reply.symbol]

IsLookup(r) == r.kind \in {"stock", "stock_failed"}

\* source tags of quotes that come from a live feed, and of made-up quotes
LiveTags == {"twse", "smart_fallback", "yfinance"}
SimulatedTags == {"fallback_simulation", "fallback_generic", "fallback_emergency"}

\* C19: a lookup of an all-digit symbol that gets no quote from the official
\* feed nor from the general-purpose feed returns the static fallback quote
\* (the table entry, or the generic placeholder)
C19_DomesticStaticFallback ==
    (IsLookup(reply) /\ DigitsOnly(reply.symbol) /\ reply.data.source \notin LiveTags)
        => reply.data = _get_fallback_stock_info(reply.symbol)

\* the official exchange feed gave no quote: it was not asked (weekend, or
\* outside 09:00-13:30) or it answered without data
OfficialAbsent(t, twse) ==
    \/ weekday(t) >= 5
    \/ time(t) < At(0, 9, 0) \/ time(t) > At(0, 13, 30)
    \/ twse.status_code # 200
    \/ Len(twse.data) = 0

C21_FirstUsableProvider ==
    (IsLookup(reply) /\ reply.data # None) =>
        LET n == Len(reply.returns)
        IN  /\ Positive(reply.data.price)
            /\ reply.data = reply.returns[n]
            /\ \A i \in 1..(n - 1) : reply.returns[i] = None

\* the instant lies on a weekend, or outside 09:00-13:30
OutOfHours(t) ==
    \/ weekday(t) >= 5
    \/ time(t) < At(0, 9, 0)
    \/ time(t) > At(0, 13, 30)

\* C22: a lookup of a domestic symbol made on a weekend or outside 09:00-13:30
\* sends no request to the official exchange feed and gets no quote of that
\* feed; the chain goes on to the general-purpose feed
C22_TimeGatedFeed ==
    (IsLookup(reply) /\ IsDigits(reply.symbol) /\ OutOfHours(reply.at)) =>
        /\ \A i \in DOMAIN reply.requests : reply.requests[i].host # "twse"
        /\ \A i \in DOMAIN reply.returns : reply.returns[i].source # "twse"
        /\ reply.returns[1] = _get_twse_offline_data(reply.symbol, reply.feed.yfOff)
        /\ Len(reply.requests) > 0
        /\ reply.returns[1] = None =>
              /\ Len(reply.calls) = 2
              /\ reply.calls[2] = [fn |-> "_get_yfinance_stock_info",
                                   symbol |-> TW(reply.symbol)]

\* a Saturday lookup of 2330 while the official feed would have answered with a
\* price: only the general-purpose feed was asked
C22_Witness ==
    /\ IsLookup(reply) /\ reply.symbol = S2330
    /\ weekday(reply.at) = 5
    /\ reply.feed.twse = [status_code |-> 200, data |-> <<800000>>]
    /\ Len(reply.requests) > 0
    /\ \A i \in DOMAIN reply.requests : reply.requests[i].host = "yfinance"
    /\ reply.data = None

\* C23: no provider and no lookup lets an exception out: each returns a quote
\* or nothing
C23_NeverRaise ==
    IsLookup(reply) =>
        /\ reply.data # Raised
        /\ \A i \in DOMAIN reply.returns : reply.returns[i] # Raised

\* a lookup of 2330 in trading hours during which the request to the official
\* feed raised, and the general-purpose feed gave the quote
C23_Witness ==
    /\ IsLookup(reply) /\ reply.symbol = S2330
    /\ ~ OutOfHours(reply.at)
    /\ reply.feed.twse.status_code = 0
    /\ reply.requests[1].host = "twse"
    /\ reply.returns = << [symbol |-> S2330, price |-> 800000,
                           source |-> "smart_fallback"] >>
    /\ reply.data = reply.returns[1]

\* C24: one fetch from the general-purpose feed tries its strategies in the
\* order info, 1-day, 5-day, 2-day-interval, a later one only while no earlier
\* one gave a price above zero, none more than three times, and ends with a
\* quote whose price is above zero or with nothing
C24_RetryEscalation ==
    (IsLookup(reply) /\ ~ IsDigits(reply.symbol)) =>
        LET a == reply.requests
            yf == reply.feed.yf
        IN  /\ \A i, j \in DOMAIN a : i < j => a[i].strategy <= a[j].strategy
            /\ \A k \in 1..4 : Cardinality({i \in DOMAIN a : a[i].strategy = k}) <= 3
            /\ \A k \in 1..4 :
                  (\E i \in DOMAIN a : a[i].strategy = k) =>
                      \A j \in 1..(k - 1) : ~ Positive(yf[j])
            /\ \/ reply.returns[1] = None
               \/ Positive(reply.returns[1].price)

\* C25: a lookup that returns a quote leaves it in the cache under its symbol,
\* and a further lookup of that symbol made less than cache_timeout seconds
\* later returns the same quote without a request to any provider
C25_QuoteCache ==
    [][ (IsLookup(reply') /\ reply' # reply) =>
            /\ reply'.kind = "stock" => reply'.symbol \in DOMAIN cache'
            /\ ( /\ reply.kind = "stock"
                 /\ reply'.symbol = reply.symbol
                 /\ (reply'.at - reply.at) * 60 < cache_timeout )
               => /\ reply'.data = reply.data
                  /\ reply'.requests = << >> ]_vars

\* C26: the price the evaluator compares with an alert's target is what the
\* provider chain returns on the answers the feeds gave for that alert in that
\* cycle, whatever quote of the symbol a user was shown before
C26_EvaluatorFresh ==
    \A e \in Evaluators :
        ev[e].cur # << >> =>
            LET c == ev[e].cur[1]
            IN  /\ c.at >= ev[e].now
                /\ c.stock_data = get_stock_info(c.key[2], c.at, c.feed.twse,
                                                 c.feed.yfOff, c.feed.yf)
                /\ c.triggered <=> /\ c.stock_data # None
                                   /\ Triggered(c.key[4], c.stock_data.price, c.key[3])

\* a user was shown 2330 at 800.01, above the buy target 800.00; in the same
\* five minutes the evaluator gets 799.99 from the feed and takes the alert
\* as fired
C26_Witness ==
    /\ reply.kind = "stock" /\ reply.symbol = S2330 /\ reply.data.price = 800010
    /\ \E e \in Evaluators :
         /\ ev[e].cur # << >>
         /\ ev[e].cur[1].key = <<"U1", S2330, 800000, Buy>>
         /\ ev[e].cur[1].at = reply.at
         /\ ev[e].cur[1].stock_data.price = 799990
         /\ ev[e].cur[1].triggered

\* C27: a lookup of a symbol that has no entry in the static fallback table,
\* during which every provider asked returned nothing, returns nothing, and
\* the user is shown the "data unavailable" message instead of a quote
C27_NotFoundUnavailable ==
    ( /\ IsLookup(reply)
      /\ reply.symbol \notin DOMAIN fallback_data
      /\ \A i \in DOMAIN reply.calls :
            reply.calls[i].fn # "_get_fallback_stock_info" => reply.returns[i] = None )
        => /\ reply.data = None
           /\ reply.kind = "stock_failed"

\* the thread sleeps: time.sleep(300) after a cycle, time.sleep(60) after an error
Sleeping(e) == ev[e].pc \in {"sleep", "backoff"}

\* the instants at which a sleep may end
Wakes == {Instants[i] + d : i \in 1..MaxInstant, d \in {1, 5}}

\* C28: the scheduler thread never ends: it is always asleep or inside a
\* cycle; a cycle always comes to its sleep, by its end or by an error that is
\* absorbed; and whenever the thread sleeps, after a cycle or after an error,
\* and the end of its sleep lies within the instants of the model, another
\* cycle is started (ev[e].now is the instant the current cycle started at)
C28_SchedulerLiveness ==
    \A e \in {1} :
        /\ [](ev[e].pc \in {"sleep", "backoff", "check", "send"})
        /\ (~ Sleeping(e)) ~> Sleeping(e)
        /\ \A w \in Wakes :
              (Sleeping(e) /\ ev[e].wake = w /\ w <= Instants[MaxInstant])
                  ~> (ev[e].now >= w)

\* the cycle of 09:00 wrote the history row of a fired alert and then failed
\* before the alert was handed to send_price_alert; the thread slept its 60 s
\* and is in the cycle of 09:05
C28_Witness ==
    /\ Len(price_alerts) = 1
    /\ price_alerts[1].triggered_at = At(4, 9, 0)
    /\ pushed = << >>
    /\ ev[1].pc = "check"
    /\ ev[1].now = At(4, 9, 5)

\* the user has no active record in the store
NoneActive(S, user_id) ==
    /\ \A r \in S.stock_tracking : r.user_id = user_id => ~ r.is_active
    /\ S.stock_trackings[user_id] = << >>

\* C29: the texts 我的提醒 and 提醒清單 are answered with the sender's list of
\* alerts; after 取消全部 and after 取消所有提醒 the sender has no active alert
\* and is told so; a text that is no command is answered as unknown and
\* leaves the store as it was
C29_ListRemoveAllGrammar ==
    [][ \A user_id \in Users, m \in Messages :
          handle_message(user_id, m, "ok") =>
              /\ (m.head \in {MyAlerts, AlertList} /\ m.args = << >>) =>
                    /\ reply'.kind \in {"list", "list_empty"}
                    /\ reply'.to = user_id
              /\ (m.head \in {CancelAll, CancelAllAlerts} /\ m.args = << >>) =>
                    /\ reply'.kind = "cancel_all_ok"
                    /\ NoneActive(Store', user_id)
              /\ m.head = GoodMorning =>
                    /\ reply'.kind = "unknown"
                    /\ Store' = Store ]_vars

\* a price written as an integer
IsInteger(tok) == tok \in {"800", "1100"}

\* the replies that show the format of the command
UsageHints == {"price_format_error", "action_error", "track_format_error"}

\* C30: a 追蹤 text changes the store only if it is 追蹤, a symbol, an integer
\* price and 買進 or 賣出, four words in all; any other 追蹤 text is answered
\* with a hint on the format and leaves the store as it was
C30_AddGrammar ==
    [][ \A user_id \in Users, m \in Messages :
          (handle_message(user_id, m, "ok") /\ m.head = Track) =>
              LET wellformed == /\ Len(m.args) = 3
                                /\ IsInteger(m.args[2])
                                /\ m.args[3] \in {Buy, Sell}
              IN  /\ Store' # Store => wellformed
                  /\ ~ wellformed => /\ reply'.kind \in UsageHints
                                     /\ Store' = Store ]_vars

\* C31: a symbol that is not all digits is upper-cased before it reaches the
\* provider chain or the store: every lookup of such a symbol is made on its
\* upper-case form, and every record of the store holds its upper-case form,
\* so that no two records differ only in the case of the symbol
C31_UpperCased ==
    /\ (IsLookup(reply) /\ ~ IsDigits(reply.symbol)) => reply.symbol = upper(reply.symbol)
    /\ \A r \in stock_tracking : ~ IsDigits(r.symbol) => r.symbol = upper(r.symbol)
    /\ \A r1, r2 \in stock_tracking :
          (r1.is_active /\ r2.is_active /\ Key(r1) # Key(r2)) =>
              <<r1.user_id, upper(r1.symbol), r1.target_price, r1.action>>
                  # <<r2.user_id, upper(r2.symbol), r2.target_price, r2.action>>

\* C32: in a quote of the general-purpose feed, change and percent change are
\* both 0 when the history call fails or gives fewer than two closes;
\* otherwise change is the price minus the close before the last, and percent
\* change is that change over that close, times 100
C32_ChangeDefault ==
    reply.kind = "change" =>
        LET n == Len(reply.hist.closes)
        IN  IF reply.hist.raised \/ n < 2
            THEN /\ reply.change = 0
                 /\ reply.change_percent.num = 0
            ELSE /\ reply.change = reply.data.price - reply.hist.closes[n - 1]
                 /\ reply.change_percent.num = reply.change * 100
                 /\ reply.change_percent.den = reply.hist.closes[n - 1]

\* a quote at 799.99 whose only historical close is 800.01: change 0
C32_Witness ==
    /\ reply.kind = "change"
    /\ reply.data.price = 799990
    /\ reply.hist = [raised |-> FALSE, closes |-> <<800010>>]
    /\ reply.change = 0

\* a quote at 799.99 after a close of 800.01: change -0.02
C32_WitnessTwo ==
    /\ reply.kind = "change"
    /\ reply.data.price = 799990
    /\ reply.hist.closes = <<800010, 799990>>
    /\ reply.change = -20

\* C33: the evaluator takes an alert as fired only on a quote of a live feed
\* (tagged twse, smart_fallback or yfinance), never on a quote tagged
\* fallback_simulation, fallback_generic or fallback_emergency
C33_LivePricesOnly ==
    \A e \in Evaluators :
        (ev[e].cur # << >> /\ ev[e].cur[1].triggered) =>
            /\ ev[e].cur[1].stock_data.source \in LiveTags
            /\ ev[e].cur[1].stock_data.source \notin SimulatedTags

\* C34: a cancel that has completed wins over a cycle in progress: the cycle
\* takes an alert as fired (inserts its history row, lists it for
\* notification) only if its record is active at that moment, so never for an
\* alert cancelled, and not re-added, since the cycle read it
C34_CancelWins ==
    [][ \A e \in Evaluators :
          ( /\ ev[e].pc = "check"
            /\ ev'[e].cur # ev[e].cur
            /\ ev'[e].cur # << >>
            /\ ev'[e].cur[1].triggered )
          => Active(stock_tracking, ev'[e].cur[1].key) ]_vars

\* C35: an add that reported success is effective: every alert held in the
\* in-memory list is among the alerts the evaluator selects and is in every
\* list returned to its user
C35_AddEffective ==
    \A u \in Users : \A i \in 1..Len(stock_trackings[u]) :
        LET d == stock_trackings[u][i]
        IN  /\ MemKey(u, d) \in SelectActive(stock_tracking)
            /\ \A rows \in get_user_trackings(Store, u, "ok") :
                  \E j \in DOMAIN rows :
                      /\ rows[j].symbol = d.symbol
                      /\ rows[j].target_price = d.target_price
                      /\ rows[j].action = d.action

C37_NonTriggeredUntouched ==
    [][ (\E e \in Evaluators : ev'[e] # ev[e]) =>
          LET fired == UNION {KeysOf(ev[e].alerts) :
                                e \in {x \in Evaluators :
                                         ev[x].pc = "check" /\ ev'[x].pc = "send"}}
          IN  /\ \A r \in stock_tracking :
                    IF Key(r) \in fired
                    THEN [r EXCEPT !.is_active = FALSE] \in stock_tracking'
                    ELSE r \in stock_tracking'
              /\ Cardinality(stock_tracking') = Cardinality(stock_tracking)
              /\ Len(price_alerts') >= Len(price_alerts)
              /\ SubSeq(price_alerts', 1, Len(price_alerts)) = price_alerts
              /\ \A i \in (Len(price_alerts) + 1)..Len(price_alerts') :
                    /\ HistKey(price_alerts'[i]) \in fired
                    /\ Triggered(price_alerts'[i].action, price_alerts'[i].current_price,
                                 price_alerts'[i].target_price)
              /\ stock_trackings' = stock_trackings ]_vars

\* at 799.99 the buy alert at 800 has fired and is inactive, with its history
\* row; the sell alert at 800 of the same user and symbol was evaluated in the
\* same cycle, is still active and has no history row
C37_Witness ==
    /\ ev[1].pc = "send"
    /\ KeysOf(ev[1].alerts) = {<<"U1", S2330, 800000, Buy>>}
    /\ ev[1].alerts[1].current_price = 799990
    /\ ~ Active(stock_tracking, <<"U1", S2330, 800000, Buy>>)
    /\ Active(stock_tracking, <<"U1", S2330, 800000, Sell>>)
    /\ \E r \in stock_tracking :
          Key(r) = <<"U1", S2330, 800000, Sell>> /\ r.created_at < ev[1].now
    /\ KeysOf(price_alerts) = {<<"U1", S2330, 800000, Buy>>}

\* C38: a modify command replied to as a success found the old alert active
\* and leaves it inactive and the new alert active; answered in any other way
\* it leaves the alert table and the in-memory list as they were
C38_ModifyAllOrNothing ==
    [][ \A o \in ModifyTokens, n \in ModifyTokens, a \in {Buy, Sell},
           c1 \in ConnOutcomes, c2 \in ConnOutcomes :
          HandleModify("U1", S2330, o, n, a, c1, c2) =>
              \/ /\ reply'.kind = "modify_ok"
                 /\ Active(stock_tracking, <<"U1", S2330, float(o), a>>)
                 /\ Active(stock_tracking', <<"U1", S2330, float(n), a>>)
                 /\ (o # n) => ~ Active(stock_tracking', <<"U1", S2330, float(o), a>>)
              \/ /\ reply'.kind # "modify_ok"
                 /\ stock_tracking' = stock_tracking
                 /\ stock_trackings' = stock_trackings ]_vars

====
